---- MODULE Spec2Model ----
(***************************************************************************)
(* Freya sensor driver: the sampling orchestrator of src/src/index.ts      *)
(* (the D-Bus service of lines 1-87 and the legacy sampling loop of lines  *)
(* 88-219) and the chip drivers BME680 (src/src/bme680.ts), VEML6030       *)
(* (src/src/veml6030.ts) and AS7331 (src/unnamed/part_001).                *)
(*                                                                         *)
(* Numbers.  setSampleInterval takes a JavaScript number and               *)
(* SAMPLEINT_MIN is 0.5, so interval arguments and the two bounds are held *)
(* in halves: the model's interval2 stands for the argument interval2/2.   *)
(* sampleInterval can reach 12*60*60*1000*1000, beyond 32 bits, so it and  *)
(* the timer's times are held as two limbs [hi, lo] of value               *)
(* hi*Base + lo with 0 <= lo < Base.                                       *)
(***************************************************************************)
EXTENDS Integers, Sequences, FiniteSets, TLC

VARIABLES
    \* ---- src/src/index.ts, lines 1-87: EnvSensorDriver and main
    sampleInterval,   \* EnvSensorDriver.sampleInterval, two limbs
    timerDelay,       \* the delay setInterval was given, two limbs
    nextTickAt,       \* the time the next timer callback is due, two limbs
    ticks,            \* timer callbacks run so far
    signals,          \* 'measurement' signals emitted by the latest callback
    signalTotal,      \* 'measurement' signals emitted so far
    op,               \* the operation that ran last
    setArg,           \* argument of the latest setSampleInterval call, in halves
    setRet,           \* what that call returned
    \* ---- src/src/index.ts, lines 88-219: the legacy sampling loop
    legacyAlive,      \* the legacy process has not died of an uncaught exception
    legacyTicks,      \* legacy timer callbacks run so far
    legacyInvoked,    \* the calls the latest legacy callback made, in order
    legacyThrew,      \* the call of the latest legacy callback that threw, or "none"
    legacyPublished,  \* what the latest legacy callback handed to the Core
    \* ---- src/src/bme680.ts: one BME680 instance and the chip behind it
    bmeChip,          \* which chip is on the bus: its calibration and trim registers
    bmeRegs,          \* the chip's control registers
    bmeI2c,           \* this.i2c has been opened
    bmeCalParsed,     \* the par_* fields have been assigned
    bmeCal,           \* par_*, res_heat_range, res_heat_val, range_sw_err
    bmeTFine,         \* this.t_fine: << >> while unassigned, else <<value>>
    bmeTFineBefore,   \* this.t_fine as the latest completed read() found it
    bmePc,            \* "idle", or "poll" while read() is in its status loop
    bmeData,          \* the 15-byte buffer of read()
    bmeBytesRead,     \* the bytes the latest readI2cBlock of read() delivered
    bmeFilled,        \* the bytes of the buffer the earlier block reads of the
                      \* same read() had written
    bmeInitResult,    \* outcome of the latest init(): "none", "ok", "DeviceNotFound"
    bmeReadResult,    \* outcome of the latest read(): "none", "pending", "TypeError", "reading"
    bmeReading,       \* the object the latest completed read() returned
    bmeLog,           \* the bus transactions of the latest init() or read()
    \* ---- src/src/veml6030.ts: one VEML6030 instance
    veI2c,            \* this.i2c has been opened
    veFields,         \* gainValue (in eighths), integrationTime (ms), luxPerCount;
                      \* 0, 0 and NaN while unassigned
    veInitResult,     \* outcome of the latest init(): "none", "ok", "DeviceNotFound"
    veReadResult,     \* outcome of the latest read(): "none", "TypeError", "reading"
    veReading,        \* the lux the latest completed read() returned
    veLog,            \* the bus transactions of the latest init() or read()
    \* ---- src/unnamed/part_001: one AS7331 instance and the chip behind it
    asChipId,         \* bits 7:4 of the chip's operational-state register
    asI2c,            \* this.i2c has been opened
    asFields,         \* gainCode, timeCode, integrationTime, gainMultiplier;
                      \* all 0 while unassigned
    asInitResult,     \* outcome of the latest init(): "none", "ok", "DeviceNotFound"
    asReadResult,     \* outcome of the latest read(): "none", "TypeError", "reading"
    asBytesRead,      \* the bytes the readI2cBlock of the latest read() delivered
    asReading,        \* the object the latest completed read() returned
    asLog,            \* the bus transactions of the latest init() or read()
    \* ---- the awaits of the drivers' init() and read()
    busCalls,         \* per invocation: the operation, its transactions, the one
                      \* it has reached, and whether that one is in flight
    \* ---- the private functions of the drivers, applied on their own
    fnCall            \* the function applied last, its arguments and its result

orchVars == <<sampleInterval, timerDelay, nextTickAt, ticks, signals,
              signalTotal, op, setArg, setRet>>
legacyVars == <<legacyAlive, legacyTicks, legacyInvoked, legacyThrew, legacyPublished>>
bmeVars == <<bmeChip, bmeRegs, bmeI2c, bmeCalParsed, bmeCal, bmeTFine, bmeTFineBefore,
             bmePc, bmeData, bmeBytesRead, bmeFilled,
             bmeInitResult, bmeReadResult, bmeReading, bmeLog>>
veVars == <<veI2c, veFields, veInitResult, veReadResult, veReading, veLog>>
asVars == <<asChipId, asI2c, asFields, asInitResult, asReadResult, asBytesRead,
            asReading, asLog>>
driverVars == <<bmeVars, veVars, asVars>>
busVars == <<busCalls>>
fnVars == <<fnCall>>
vars == <<orchVars, legacyVars, driverVars, busVars, fnVars>>

----------------------------------------------------------------------------
\* Bounds of the model

\* timer callbacks of the D-Bus service explored
MaxTicks == 3
\* timer callbacks of the legacy loop explored
MaxLegacyTicks == 2
\* invocations of init() and read() that may be running at the same time
MaxBusCalls == 2

----------------------------------------------------------------------------
\* Two-limb numbers

Base == 1000 * 1000

Big(n) == [hi |-> n \div Base, lo |-> n % Base]

BigAdd(a, b) == [hi |-> a.hi + b.hi + ((a.lo + b.lo) \div Base),
                 lo |-> (a.lo + b.lo) % Base]

BigLeq(a, b) == a.hi < b.hi \/ (a.hi = b.hi /\ a.lo <= b.lo)

----------------------------------------------------------------------------
\* src/src/index.ts, lines 19-24

\* const SAMPLEINT_MIN = 0.5, in halves
SAMPLEINT_MIN2 == 1
\* const SAMPLEINT_MAX = 12*60*60*1000, in halves
SAMPLEINT_MAX2 == 2 * (12 * 60 * 60 * 1000)
\* public sampleInterval = 10*1000
DefaultSampleInterval == Big(10 * 1000)

\* interval*1000 for interval = interval2/2:
\* interval2*500 = (interval2 div 2000)*Base + (interval2 mod 2000)*500
IntervalTimes1000(interval2) ==
    [hi |-> interval2 \div 2000, lo |-> (interval2 % 2000) * 500]

\* the arguments setSampleInterval is called with, in halves: around both
\* bounds, the default (10), and values whose product with 1000 passes
\* SAMPLEINT_MAX
IntervalInputs ==
    { SAMPLEINT_MIN2 - 3, SAMPLEINT_MIN2 - 2, SAMPLEINT_MIN2 - 1, SAMPLEINT_MIN2,
      SAMPLEINT_MIN2 + 1, 10, 20, 86400, 86402,
      SAMPLEINT_MAX2 - 1, SAMPLEINT_MAX2, SAMPLEINT_MAX2 + 1, SAMPLEINT_MAX2 + 2,
      SAMPLEINT_MAX2 + 3 }

\* OutOfBounds with <= and >= for < and >: the bounds themselves rejected
OutOfBoundsExclusive(interval2) ==
    interval2 <= SAMPLEINT_MIN2 \/ interval2 >= SAMPLEINT_MAX2

\* if( interval < SAMPLEINT_MIN || interval > SAMPLEINT_MAX ) return false;
OutOfBounds(interval2) ==
    interval2 < SAMPLEINT_MIN2 \/ interval2 > SAMPLEINT_MAX2

\* the dummy values the timer callback pushes
TickMeasurements == << <<"temperature", "24.3">>, <<"humidity", "53.5">> >>

\* the calls of the legacy timer callback, in order (lines 123-128)
LegacyCalls == << "bme680.getTemperature", "bme680.getHumidity", "bme680.getPressure",
                  "as7331.readSensorData", "veml6030.readSensorData" >>

----------------------------------------------------------------------------
\* The state once main's requestName callback has run: the driver is
\* constructed and setInterval has been given driver.sampleInterval.

OrchInit ==
    /\ sampleInterval = DefaultSampleInterval
    /\ timerDelay = DefaultSampleInterval
    /\ nextTickAt = DefaultSampleInterval
    /\ ticks = 0
    /\ signals = << >>
    /\ signalTotal = 0
    /\ op = "main"
    /\ setArg = 0
    /\ setRet = FALSE

LegacyInit ==
    /\ legacyAlive = TRUE
    /\ legacyTicks = 0
    /\ legacyInvoked = << >>
    /\ legacyThrew = "none"
    /\ legacyPublished = << >>

\* EnvSensorDriver.setSampleInterval(interval), interval = interval2/2
setSampleInterval(interval2) ==
    /\ op' = "setSampleInterval"
    /\ setArg' = interval2
    /\ IF OutOfBounds(interval2)
         THEN /\ setRet' = FALSE
              /\ sampleInterval' = sampleInterval
         ELSE /\ sampleInterval' = IntervalTimes1000(interval2)
              /\ setRet' = TRUE
    /\ UNCHANGED <<timerDelay, nextTickAt, ticks, signals, signalTotal>>
    /\ UNCHANGED <<legacyVars, driverVars, busVars, fnVars>>

SetSampleIntervalCall == \E interval2 \in IntervalInputs : setSampleInterval(interval2)

\* the callback of setInterval(() => {...}, driver.sampleInterval): two
\* pushMeasurement calls, each one emit('measurement', variable, value); the
\* timer re-arms with the delay it was created with
Tick ==
    /\ ticks < MaxTicks
    /\ op' = "tick"
    /\ ticks' = ticks + 1
    /\ signals' = TickMeasurements
    /\ signalTotal' = signalTotal + Len(TickMeasurements)
    /\ nextTickAt' = BigAdd(nextTickAt, timerDelay)
    /\ UNCHANGED <<sampleInterval, timerDelay, setArg, setRet>>
    /\ UNCHANGED <<legacyVars, driverVars, busVars, fnVars>>

\* the callback of the legacy setInterval: the calls run in order with no
\* try/catch, so the first one that throws ends the callback and, uncaught,
\* the process; nothing is forwarded to the Core (line 130: TODO).
\* k is the index of the first call that throws, 0 when none does.
LegacyTick ==
    /\ legacyAlive
    /\ legacyTicks < MaxLegacyTicks
    /\ \E k \in 0 .. Len(LegacyCalls) :
         /\ legacyInvoked' = IF k = 0 THEN LegacyCalls ELSE SubSeq(LegacyCalls, 1, k)
         /\ legacyThrew' = IF k = 0 THEN "none" ELSE LegacyCalls[k]
         /\ legacyAlive' = (k = 0)
    /\ legacyTicks' = legacyTicks + 1
    /\ legacyPublished' = << >>
    /\ UNCHANGED <<orchVars, driverVars, busVars, fnVars>>

----------------------------------------------------------------------------
\* Bytes, buffers and the bus log

\* buffer[i] of a Buffer held as a tuple (Buffers index from 0)
At(buf, i) == buf[i + 1]

readUInt8(buf, i) == At(buf, i)

readInt8(buf, i) == IF At(buf, i) >= 128 THEN At(buf, i) - 256 ELSE At(buf, i)

readUInt16LE(buf, i) == At(buf, i) + 256 * At(buf, i + 1)

readInt16LE(buf, i) ==
    IF readUInt16LE(buf, i) >= 32768 THEN readUInt16LE(buf, i) - 65536
    ELSE readUInt16LE(buf, i)

\* x >> k of a 32-bit integer: the floor of x / 2^k
Sar(x, k) == x \div (2 ^ k)

\* x << k, for operands whose result stays within 32 bits
Shl(x, k) == x * (2 ^ k)

RECURSIVE BitOr(_, _)
\* a | b of non-negative integers
BitOr(a, b) ==
    IF a = 0 THEN b
    ELSE IF b = 0 THEN a
    ELSE (IF a % 2 = 1 \/ b % 2 = 1 THEN 1 ELSE 0) + 2 * BitOr(a \div 2, b \div 2)

\* one bus transaction: what ("w" writeByte/writeWord, "r" readByte/readWord,
\* "rb" readI2cBlock), the register, and the value written or read (the
\* length, for a block)
Xfer(kind, reg, val) == <<kind, reg, val>>

\* the registers of the writes in a log
WrittenRegs(log) == { log[i][2] : i \in { j \in DOMAIN log : log[j][1] = "w" } }

----------------------------------------------------------------------------
\* The arithmetic of the drivers' floating-point code (bme680.ts lines
\* 198-269, veml6030.ts lines 71-74 and 93-160, part_001 lines 134-147).
\* TLC's integers have 32 bits; the values of that code do not fit them.

\* Natural numbers of any size: the limbs base 2^15, least significant
\* first, the most significant one non-zero; << >> is 0
LimbBits == 15
Limb == 2 ^ LimbBits

RECURSIVE NatOf(_)
NatOf(n) == IF n = 0 THEN << >> ELSE << n % Limb >> \o NatOf(n \div Limb)

RECURSIVE NatTrim(_)
NatTrim(a) ==
    IF a = << >> THEN << >>
    ELSE IF a[Len(a)] = 0 THEN NatTrim(SubSeq(a, 1, Len(a) - 1))
    ELSE a

RECURSIVE NatAddC(_, _, _)
NatAddC(a, b, c) ==
    IF a = << >> /\ b = << >> THEN (IF c = 0 THEN << >> ELSE << c >>)
    ELSE LET x == IF a = << >> THEN 0 ELSE Head(a)
             y == IF b = << >> THEN 0 ELSE Head(b)
             t == x + y + c
         IN  << t % Limb >> \o
             NatAddC(IF a = << >> THEN a ELSE Tail(a),
                     IF b = << >> THEN b ELSE Tail(b), t \div Limb)

NatAdd(a, b) == NatAddC(a, b, 0)

RECURSIVE NatSubB(_, _, _)
\* a - b - c for a >= b + c, untrimmed
NatSubB(a, b, c) ==
    IF a = << >> THEN << >>
    ELSE LET y == IF b = << >> THEN 0 ELSE Head(b)
             t == Head(a) - y - c
         IN  << t % Limb >> \o
             NatSubB(Tail(a), IF b = << >> THEN b ELSE Tail(b),
                     IF t < 0 THEN 1 ELSE 0)

NatSub(a, b) == NatTrim(NatSubB(a, b, 0))

RECURSIVE NatCmpFrom(_, _, _)
\* the limbs i, i-1, ..., 1 of two numbers of equal length compared
NatCmpFrom(a, b, i) ==
    IF i = 0 THEN 0
    ELSE IF a[i] < b[i] THEN -1
    ELSE IF a[i] > b[i] THEN 1
    ELSE NatCmpFrom(a, b, i - 1)

\* -1, 0, 1 as a < b, a = b, a > b
NatCmp(a, b) ==
    IF Len(a) < Len(b) THEN -1
    ELSE IF Len(a) > Len(b) THEN 1
    ELSE NatCmpFrom(a, b, Len(a))

RECURSIVE NatMulLimbC(_, _, _)
\* a * k + c for 0 <= k, c < Limb, untrimmed when k = 0
NatMulLimbC(a, k, c) ==
    IF a = << >> THEN (IF c = 0 THEN << >> ELSE << c >>)
    ELSE LET t == Head(a) * k + c
         IN  << t % Limb >> \o NatMulLimbC(Tail(a), k, t \div Limb)

NatMulLimb(a, k) == IF k = 0 THEN << >> ELSE NatMulLimbC(a, k, 0)

NatShiftLimbs(a, q) == IF a = << >> THEN a ELSE [i \in 1 .. q |-> 0] \o a

RECURSIVE NatMul(_, _)
NatMul(a, b) ==
    IF b = << >> \/ a = << >> THEN << >>
    ELSE NatAdd(NatMulLimb(a, Head(b)), NatShiftLimbs(NatMul(a, Tail(b)), 1))

\* the bits of a limb n: the least k with n < 2^k
BitLenSmall(n) == CHOOSE k \in 0 .. LimbBits : n < 2 ^ k /\ (k = 0 \/ n >= 2 ^ (k - 1))

NatBitLen(a) == IF a = << >> THEN 0 ELSE LimbBits * (Len(a) - 1) + BitLenSmall(a[Len(a)])

\* bit i (from 0) of a
NatBit(a, i) ==
    IF i \div LimbBits + 1 > Len(a) THEN 0
    ELSE (a[i \div LimbBits + 1] \div (2 ^ (i % LimbBits))) % 2

\* a * 2^k
NatShl(a, k) == NatShiftLimbs(NatMulLimb(a, 2 ^ (k % LimbBits)), k \div LimbBits)

\* floor(a / 2^r) for 0 <= r < LimbBits
NatShrBits(a, r) ==
    NatTrim([i \in 1 .. Len(a) |->
               (a[i] \div (2 ^ r)) +
               (IF i < Len(a) THEN (a[i + 1] % (2 ^ r)) * (2 ^ (LimbBits - r)) ELSE 0)])

\* floor(a / 2^k)
NatShr(a, k) ==
    IF k \div LimbBits >= Len(a) THEN << >>
    ELSE NatShrBits(SubSeq(a, k \div LimbBits + 1, Len(a)), k % LimbBits)

\* a mod 2^k is 0
NatLowZero(a, k) == \A i \in 0 .. k - 1 : NatBit(a, i) = 0

\* the number of zero bits below the lowest set bit of a # 0
NatTrailingZeros(a) ==
    CHOOSE k \in 0 .. NatBitLen(a) - 1 : NatBit(a, k) = 1 /\ NatLowZero(a, k)

\* limb i (from 1) of a, 0 beyond its length
NatLimb(a, i) == IF i >= 1 /\ i <= Len(a) THEN a[i] ELSE 0

\* the largest q in {h, h - 1, h - 2, 0 ...} with q * b <= r, for an estimate
\* h that exceeds the quotient of r by b by at most 2
NatDigit(r, b, h) ==
    IF NatCmp(NatMulLimb(b, h), r) <= 0 THEN h
    ELSE IF NatCmp(NatMulLimb(b, h - 1), r) <= 0 THEN h - 1
    ELSE h - 2

RECURSIVE NatDivStep(_, _, _, _, _)
\* long division by limbs, limb i of a downwards, for b whose top limb has
\* its top bit set: [q, r] with a = q*b + r, 0 <= r < b
NatDivStep(a, b, i, q, r) ==
    IF i < 1 THEN [q |-> q, r |-> r]
    ELSE LET r2 == NatTrim(<< a[i] >> \o r)
             n == Len(b)
             est == (NatLimb(r2, n + 1) * Limb + NatLimb(r2, n)) \div b[n]
             h == IF est > Limb - 1 THEN Limb - 1 ELSE est
             d == IF h <= 2 THEN
                      (IF NatCmp(NatMulLimb(b, 2), r2) <= 0 THEN 2
                       ELSE IF NatCmp(b, r2) <= 0 THEN 1 ELSE 0)
                  ELSE NatDigit(r2, b, h)
         IN  NatDivStep(a, b, i - 1, NatTrim(<< d >> \o q), NatSub(r2, NatMulLimb(b, d)))

\* [q, r] with a = q*b + r, 0 <= r < b, for b # 0
NatDivMod(a, b) ==
    LET s == LimbBits - BitLenSmall(b[Len(b)])
        qr == NatDivStep(NatShl(a, s), NatShl(b, s), Len(NatShl(a, s)), << >>, << >>)
    IN  [q |-> qr.q, r |-> NatShr(qr.r, s)]

\* JavaScript numbers, the IEEE 754 binary64 values: cls "fin" for (-1)^neg * m * 2^e with m odd
\* (m = << >>, e = 0, neg = FALSE for zero), "inf", "nan".  Operations round
\* to 53 significant bits, ties to even; exponents stay far inside the
\* format's range for the operands used, so nothing overflows or is subnormal.
SigBits == 53

FZero == [cls |-> "fin", neg |-> FALSE, m |-> << >>, e |-> 0]
FNaN == [cls |-> "nan", neg |-> FALSE, m |-> << >>, e |-> 0]
FInf(neg) == [cls |-> "inf", neg |-> neg, m |-> << >>, e |-> 0]

\* m odd
FNorm(neg, m, e) ==
    IF m = << >> THEN FZero
    ELSE LET tz == NatTrailingZeros(m)
         IN  [cls |-> "fin", neg |-> neg, m |-> NatShr(m, tz), e |-> e + tz]

\* the binary64 nearest to (-1)^neg * m * 2^e
FRound(neg, m, e) ==
    IF NatBitLen(m) <= SigBits THEN FNorm(neg, m, e)
    ELSE LET k == NatBitLen(m) - SigBits
             q == NatShr(m, k)
             up == NatBit(m, k - 1) = 1 /\ (NatBit(q, 0) = 1 \/ ~ NatLowZero(m, k - 1))
         IN  FNorm(neg, IF up THEN NatAdd(q, << 1 >>) ELSE q, e + k)

\* 2^k
FPow2(k) == [cls |-> "fin", neg |-> FALSE, m |-> << 1 >>, e |-> k]

\* a 32-bit integer
FInt(n) ==
    IF n = (-2) * Limb * Limb THEN [FPow2(31) EXCEPT !.neg = TRUE]
    ELSE FNorm(n < 0, NatOf(IF n < 0 THEN -n ELSE n), 0)

FNeg(x) == IF x.cls = "fin" /\ x.m = << >> THEN x ELSE [x EXCEPT !.neg = ~ x.neg]

FMul(x, y) ==
    IF x.cls = "nan" \/ y.cls = "nan" THEN FNaN
    ELSE IF x.cls = "inf" \/ y.cls = "inf"
         THEN (IF (x.cls = "fin" /\ x.m = << >>) \/ (y.cls = "fin" /\ y.m = << >>)
               THEN FNaN ELSE FInf(x.neg # y.neg))
    ELSE FRound(x.neg # y.neg, NatMul(x.m, y.m), x.e + y.e)

FAdd(x, y) ==
    IF x.cls = "nan" \/ y.cls = "nan" THEN FNaN
    ELSE IF x.cls = "inf" /\ y.cls = "inf"
         THEN (IF x.neg = y.neg THEN x ELSE FNaN)
    ELSE IF x.cls = "inf" THEN x
    ELSE IF y.cls = "inf" THEN y
    ELSE IF x.m = << >> THEN y
    ELSE IF y.m = << >> THEN x
    ELSE LET e == IF x.e < y.e THEN x.e ELSE y.e
             a == NatShl(x.m, x.e - e)
             b == NatShl(y.m, y.e - e)
         IN  IF x.neg = y.neg THEN FRound(x.neg, NatAdd(a, b), e)
             ELSE IF NatCmp(a, b) >= 0 THEN FRound(x.neg, NatSub(a, b), e)
             ELSE FRound(y.neg, NatSub(b, a), e)

FSub(x, y) == FAdd(x, FNeg(y))

FDiv(x, y) ==
    IF x.cls = "nan" \/ y.cls = "nan" THEN FNaN
    ELSE IF x.cls = "inf" THEN (IF y.cls = "inf" THEN FNaN ELSE FInf(x.neg # y.neg))
    ELSE IF y.cls = "inf" THEN FZero
    ELSE IF y.m = << >> THEN (IF x.m = << >> THEN FNaN ELSE FInf(x.neg # y.neg))
    ELSE IF x.m = << >> THEN FZero
    ELSE LET d == SigBits + 2 + NatBitLen(y.m) - NatBitLen(x.m)
             k == IF d > 0 THEN d ELSE 0
             qr == NatDivMod(NatShl(x.m, k), y.m)
             \* the quotient with one more bit: set when the division left a remainder
             m == NatMulLimbC(qr.q, 2, IF qr.r = << >> THEN 0 ELSE 1)
         IN  FRound(x.neg # y.neg, m, x.e - y.e - k - 1)

\* x = 0, as === compares
FIsZero(x) == x.cls = "fin" /\ x.m = << >>

\* -1, 0, 1 as x < y, x = y, x > y, for finite x and y
FCmp(x, y) ==
    LET d == FSub(x, y)
    IN  IF d.m = << >> THEN 0 ELSE IF d.neg THEN -1 ELSE 1

\* the integer part of |x| as a natural, and whether x has a fraction
FTrunc(x) == IF x.e >= 0 THEN NatShl(x.m, x.e) ELSE NatShr(x.m, -x.e)
FHasFraction(x) == x.e < 0 /\ x.m # << >>

\* Math.floor(x)
FFloor(x) ==
    IF x.cls # "fin" THEN x
    ELSE IF x.neg /\ FHasFraction(x) THEN FNorm(TRUE, NatAdd(FTrunc(x), << 1 >>), 0)
    ELSE FNorm(x.neg, FTrunc(x), 0)

\* a natural below 2^32 as the 32-bit two's complement integer it encodes
NatToInt32(a) ==
    LET l1 == IF Len(a) >= 1 THEN a[1] ELSE 0
        l2 == IF Len(a) >= 2 THEN a[2] ELSE 0
        l3 == IF Len(a) >= 3 THEN a[3] % 4 ELSE 0
    IN  l1 + l2 * Limb + (IF l3 >= 2 THEN l3 - 4 ELSE l3) * Limb * Limb

\* ToInt32(x): the integer part of x modulo 2^32, as a signed 32-bit integer;
\* 0 for NaN and the infinities
ToInt32(x) ==
    IF x.cls # "fin" THEN 0
    ELSE LET u == NatToInt32(FTrunc(x))
         IN  IF ~ x.neg THEN u
             ELSE IF u = (-2) * Limb * Limb THEN u
             ELSE -u

\* 10^k for 0 <= k <= 22, which binary64 holds exactly
FPow10(k) ==
    IF k <= 9 THEN FInt(10 ^ k)
    ELSE IF k <= 18 THEN FMul(FInt(10 ^ 9), FInt(10 ^ (k - 9)))
    ELSE FMul(FMul(FInt(10 ^ 9), FInt(10 ^ 9)), FInt(10 ^ (k - 18)))

\* the decimal literal n * 10^-k: the binary64 nearest to it
FDecimal(n, k) == FDiv(FInt(n), FPow10(k))

\* Math.pow(x, n) for finite x and n = 2, 3, 4: the binary64 nearest to the
\* power
FPowN(x, n) ==
    LET m2 == NatMul(x.m, x.m)
        m == IF n = 2 THEN m2 ELSE IF n = 3 THEN NatMul(m2, x.m) ELSE NatMul(m2, m2)
    IN  IF x.cls # "fin" THEN x
        ELSE FRound(x.neg /\ n = 3, m, n * x.e)

----------------------------------------------------------------------------
\* src/src/bme680.ts

\* the chip ID init() expects (0x61), and the values the ID register may
\* hold instead
BME680_CHIP_ID == 97
BmeChipIds == { BME680_CHIP_ID, 96, 255 }

\* two chips: the 25 + 16 calibration bytes at 0x89 and 0xE1 and the
\* registers 0x02, 0x00, 0x04
BmeChipA ==
    [ calib |-> << 0, 101, 103, 3, 0, 125, 142, 67, 214, 88, 0, 31, 12, 222, 255, 47,
                   30, 0, 0, 21, 251, 118, 243, 30, 0, 64, 125, 53, 0, 45, 20, 120,
                   156, 185, 101, 175, 232, 226, 18, 0, 0 >>,
      reg02 |-> 22, reg00 |-> 50, reg04 |-> 240 ]
BmeChipB ==
    [ calib |-> << 0, 189, 102, 254, 0, 57, 140, 102, 215, 88, 0, 199, 35, 113, 255, 42,
                   30, 0, 0, 46, 254, 146, 247, 30, 0, 63, 42, 49, 0, 45, 20, 120,
                   156, 209, 100, 199, 224, 186, 18, 0, 0 >>,
      reg02 |-> 38, reg00 |-> 201, reg04 |-> 48 ]
BmeChips == { "A", "B" }
BmeChipImage(c) == IF c = "A" THEN BmeChipA ELSE BmeChipB

\* the 15-byte blocks at 0x1D the chip may return to a poll: two without
\* the new-data flag (bit 7 of byte 0), two with it and different samples
BmeBlocks ==
    { << 0, 0, 0, 0, 0, 0, 0, 0, 0, 0, 0, 0, 0, 0, 48 >>,
      << 32, 0, 97, 168, 0, 126, 244, 0, 78, 32, 0, 0, 0, 75, 53 >>,
      << 128, 0, 97, 168, 0, 126, 244, 0, 78, 32, 0, 0, 0, 75, 53 >>,
      << 128, 0, 92, 198, 0, 122, 18, 0, 97, 168, 0, 0, 0, 128, 59 >> }

\* the length of the field block read() asks for (line 147)
BmeBlockLength == 15

\* the bytes a readI2cBlock of the field block may deliver (its resolved
\* value bytesRead, which line 147 discards): all of them, or the first 6
BmeReadLengths == { BmeBlockLength, 6 }

\* Buffer.alloc(15)
BmeEmptyBlock == [i \in 1 .. BmeBlockLength |-> 0]

\* the buffer after readI2cBlock has written the first n bytes of block
\* into it: the bytes beyond n keep what the buffer held
BlockInto(buf, block, n) == [i \in DOMAIN buf |-> IF i <= n THEN block[i] ELSE buf[i]]

\* the bytes of the buffer (indices from 0) the fields are extracted from
\* (lines 151-159), per field
BmeFieldBytes ==
    [ adc_pres |-> {2, 3, 4}, adc_temp |-> {5, 6, 7}, adc_hum |-> {8, 9},
      adc_gas_res |-> {13, 14}, gas_range |-> {14} ]

\* the par_* fields before init() assigns them
BmeCalUnassigned ==
    [ par_T1 |-> 0, par_T2 |-> 0, par_T3 |-> 0,
      par_P1 |-> 0, par_P2 |-> 0, par_P3 |-> 0, par_P4 |-> 0, par_P5 |-> 0,
      par_P6 |-> 0, par_P7 |-> 0, par_P8 |-> 0, par_P9 |-> 0, par_P10 |-> 0,
      par_H1 |-> 0, par_H2 |-> 0, par_H3 |-> 0, par_H4 |-> 0, par_H5 |-> 0,
      par_H6 |-> 0, par_H7 |-> 0,
      par_GH1 |-> 0, par_GH2 |-> 0, par_GH3 |-> 0,
      res_heat_range |-> 0, res_heat_val |-> 0, range_sw_err |-> 0 ]

\* lines 70-113: calib = calib1 ++ calib2 parsed into the fields
ParseCalib(chip) ==
    LET calib == chip.calib
        err4  == (chip.reg04 \div 16) % 16
    IN  [ par_T1 |-> readUInt16LE(calib, 33),
          par_T2 |-> readInt16LE(calib, 1),
          par_T3 |-> readInt8(calib, 3),
          par_P1 |-> readUInt16LE(calib, 5),
          par_P2 |-> readInt16LE(calib, 7),
          par_P3 |-> readInt8(calib, 9),
          par_P4 |-> readInt16LE(calib, 11),
          par_P5 |-> readInt16LE(calib, 13),
          par_P6 |-> readInt8(calib, 16),
          par_P7 |-> readInt8(calib, 15),
          par_P8 |-> readInt16LE(calib, 19),
          par_P9 |-> readInt16LE(calib, 21),
          par_P10 |-> readUInt8(calib, 23),
          par_H1 |-> Shl(At(calib, 27), 4) + (At(calib, 26) % 16),
          par_H2 |-> Shl(At(calib, 25), 4) + Sar(At(calib, 26), 4),
          par_H3 |-> readInt8(calib, 28),
          par_H4 |-> readInt8(calib, 29),
          par_H5 |-> readInt8(calib, 30),
          par_H6 |-> readUInt8(calib, 31),
          par_H7 |-> readInt8(calib, 32),
          par_GH1 |-> readInt8(calib, 37),
          par_GH2 |-> readInt16LE(calib, 35),
          par_GH3 |-> readInt8(calib, 38),
          res_heat_range |-> (chip.reg02 \div 16) % 4,
          res_heat_val |-> chip.reg00,
          range_sw_err |-> IF err4 > 7 THEN err4 - 16 ELSE err4 ]

\* the control registers after power-on or soft reset
BmeRegsReset == [ ctrl_gas |-> 0, ctrl_hum |-> 0, ctrl_meas |-> 0, config |-> 0 ]

\* (osrs_t << 5) | (osrs_p << 2) | mode, lines 119-122
BmeCtrlMeasInit == Shl(4, 5) + Shl(3, 2) + 0

\* ForcedMode with the other bits cleared
ForcedModeOnly(ctrl_meas) == 1

\* (ctrl_meas & 0xFC) | 0x01, line 140
ForcedMode(ctrl_meas) == (ctrl_meas - (ctrl_meas % 4)) + 1

\* (data[0] & 0x80) !== 0, line 148
NewData(data) == (At(data, 0) \div 128) % 2 = 1

\* adc_gas_res without the shift by 6
adc_gas_resUnshifted(data) == Shl(At(data, 13), 8) + At(data, 14)

\* lines 151-159: the raw fields of the block
adc_temp(data) == Shl(At(data, 5), 12) + Shl(At(data, 6), 4) + Sar(At(data, 7), 4)
adc_pres(data) == Shl(At(data, 2), 12) + Shl(At(data, 3), 4) + Sar(At(data, 4), 4)
adc_hum(data) == Shl(At(data, 8), 8) + At(data, 9)
adc_gas_res(data) == Sar(Shl(At(data, 13), 8) + At(data, 14), 6)
gas_range(data) == At(data, 14) % 16

\* lines 183-188: the value compensateTemperature assigns to this.t_fine.
\* With the par_* fields unassigned (undefined) the shifts of undefined give
\* 0 and var1 * undefined is NaN, which >> 11 turns into 0: t_fine is 0.
TFine(adc_T, parsed, cal) ==
    IF ~parsed THEN 0
    ELSE LET var1  == Sar(adc_T, 3) - Shl(cal.par_T1, 1)
             var2  == Sar(var1 * cal.par_T2, 11)
             var3a == Sar(var1, 1) * Sar(var1, 1)
             var3b == Sar(var3a, 12) * Shl(cal.par_T3, 4)
             var3  == Sar(var3b, 14)
         IN  var2 + var3

\* lines 189-190: T = ((t_fine * 5) + 128) >> 8, returned as T / 100; kept
\* in hundredths of a degree
TemperatureOf(t_fine) == Sar((t_fine * 5) + 128, 8)

\* The calls of compensatePressure, compensateHumidity and compensateGas in
\* read() (lines 169-171), kept as what each is evaluated on: the raw value
\* and the this.t_fine (or range and range_sw_err) it reads.  The values the
\* three functions return for them are compensatePressure,
\* compensateHumidity and compensateGas below.
PressureOf(adc_P, t_fine) == [adc |-> adc_P, t_fine |-> t_fine]
HumidityOf(adc_H, t_fine) == [adc |-> adc_H, t_fine |-> t_fine]
GasOf(adc_gas, range, cal) ==
    [adc |-> adc_gas, gas_range |-> range, range_sw_err |-> cal.range_sw_err]

\* IsZeroDenominator with the guard never taken
IsZeroDenominatorNever(var1) == FALSE

\* if (var1 === 0), line 206
IsZeroDenominator(var1) == FIsZero(var1)

\* line 200: var1 = (this.t_fine / 2) - 64000
PressureVar1(t_fine) == FSub(FDiv(FInt(t_fine), FInt(2)), FInt(64000))

\* lines 204-205 on the var1 of line 200: var1 = (1 + var1 / 32768) *
\* par_P1, the divisor of line 209
PressureDenominatorOn(var1, cal) ==
    FMul(FAdd(FInt(1),
              FDiv(FDiv(FAdd(FDiv(FMul(FMul(FInt(cal.par_P3), var1), var1), FInt(524288)),
                             FMul(FInt(cal.par_P2), var1)),
                        FInt(524288)),
                   FInt(32768))),
         FInt(cal.par_P1))

PressureDenominator(t_fine, cal) == PressureDenominatorOn(PressureVar1(t_fine), cal)

\* lines 201-203 on the var1 of line 200: var2
PressureVar2(var1, cal) ==
    FAdd(FDiv(FAdd(FDiv(FMul(FMul(var1, var1), FInt(cal.par_P6)), FInt(131072)),
                   FMul(FMul(var1, FInt(cal.par_P5)), FInt(2))),
              FInt(4)),
         FMul(FInt(cal.par_P4), FInt(65536)))

\* lines 208-209: p = ((1048576 - adc_P - var2 / 4096) * 6250) / var1
PressureP(adc_P, var2, var1) ==
    FDiv(FMul(FSub(FSub(FInt(1048576), FInt(adc_P)), FDiv(var2, FInt(4096))), FInt(6250)),
         var1)

\* lines 210-215 on the p of line 209; 2147483648 and 281474976710656 are
\* 2^31 and 2^48
PressureResult(p, cal) ==
    FAdd(p, FDiv(FAdd(FAdd(FAdd(FDiv(FMul(FMul(FInt(cal.par_P9), p), p), FPow2(31)),
                                FDiv(FMul(p, FInt(cal.par_P8)), FInt(32768))),
                           FDiv(FMul(FMul(FMul(p, p), p), FInt(cal.par_P10)), FPow2(48))),
                      FMul(FInt(cal.par_P7), FInt(128))),
                 FInt(16)))

\* compensatePressure, lines 198-216, on this.t_fine = t_fine and the par_P*
\* of cal
compensatePressure(adc_P, t_fine, cal) ==
    IF IsZeroDenominator(PressureDenominator(t_fine, cal)) THEN FZero
    ELSE PressureResult(PressureP(adc_P, PressureVar2(PressureVar1(t_fine), cal),
                                  PressureDenominator(t_fine, cal)),
                        cal)

\* ClampHumidity without its lower bound
ClampHumidityAbove(humidity) ==
    IF FCmp(humidity, FInt(100)) > 0 THEN FInt(100) ELSE humidity

\* if (humidity > 100) humidity = 100; if (humidity < 0) humidity = 0;
\* lines 238-239
ClampHumidity(humidity) ==
    IF FCmp(humidity, FInt(100)) > 0 THEN FInt(100)
    ELSE IF FCmp(humidity, FInt(0)) < 0 THEN FInt(0)
    ELSE humidity

\* lines 225-235: H, in thousandths of a percent, before the clamp.  >> takes
\* the 32-bit integer of its left operand
HumidityRaw(adc_H, t_fine, cal) ==
    LET temp_scaled == Sar(ToInt32(FAdd(FMul(FInt(t_fine), FInt(5)), FInt(128))), 8)
        ts == FInt(temp_scaled)
        var1a == FSub(FSub(FInt(adc_H), FMul(FInt(cal.par_H1), FInt(16))),
                      FDiv(FMul(ts, FInt(cal.par_H3)), FInt(200)))
        sq == Sar(ToInt32(FMul(ts, FDiv(FMul(ts, FInt(cal.par_H5)), FInt(100)))), 6)
        var2a == Sar(ToInt32(FMul(FInt(cal.par_H2),
                                  FAdd(FAdd(FDiv(FMul(ts, FInt(cal.par_H4)), FInt(100)),
                                            FDiv(FInt(sq), FInt(100))),
                                       FInt(16384)))), 10)
        var1b == FMul(var1a, FInt(var2a))
        var2b == FAdd(FMul(FInt(cal.par_H6), FInt(16384)),
                      FDiv(FMul(FInt(cal.par_H7), ts), FInt(2)))
        var2c == Sar(ToInt32(var2b), 9)
        var3 == FMul(FInt(Sar(ToInt32(var1b), 14)), FInt(Sar(ToInt32(var1b), 14)))
        var4 == Sar(ToInt32(FMul(FInt(var2c), var3)), 15)
    IN  Sar(ToInt32(FMul(FInt(Sar(ToInt32(FAdd(var1b, FInt(var4))), 10)), FInt(1000))), 12)

\* compensateHumidity, lines 223-241, on this.t_fine = t_fine and the par_H*
\* of cal
compensateHumidity(adc_H, t_fine, cal) ==
    ClampHumidity(FDiv(FInt(HumidityRaw(adc_H, t_fine, cal)), FInt(1000)))

\* lines 251-262
lookupTable1 ==
    << 2147483647, 2147483647, 2147483647, 2147483647,
       2147483647, 2126008810, 2147483647, 2130303777,
       2147483647, 2147483647, 2143188679, 2136746228,
       2147483647, 2126008810, 2147483647, 2147483647 >>

\* the first entry, 4096000000, is beyond 32 bits: 4096000 * 1000
lookupTable2 ==
    << FMul(FInt(4096000), FInt(1000)), FInt(2048000000), FInt(1024000000),
       FInt(512000000), FInt(255744255), FInt(127110228), FInt(64000000),
       FInt(32258064), FInt(16016016), FInt(8000000), FInt(4000000), FInt(2000000),
       FInt(1000000), FInt(500000), FInt(250000), FInt(125000) >>

\* GasFactor with range_sw_err added unscaled
GasFactorUnscaled(range_sw_err) == 1340 + range_sw_err

\* 1340 + 5 * this.range_sw_err, line 264
GasFactor(range_sw_err) == 1340 + 5 * range_sw_err

\* line 264: var1
GasVar1(range, range_sw_err) ==
    FDiv(FMul(FInt(GasFactor(range_sw_err)), FInt(lookupTable1[range + 1])), FInt(65536))

\* line 265: var2, the divisor of line 267
GasVar2(adc_gas, var1) ==
    FAdd(FSub(FMul(FInt(adc_gas), FInt(32768)), FInt(16777216)), var1)

\* compensateGas, lines 249-269, on this.range_sw_err = range_sw_err
compensateGas(adc_gas, range, range_sw_err) ==
    LET var1 == GasVar1(range, range_sw_err)
        var2 == GasVar2(adc_gas, var1)
        var3 == FDiv(FMul(lookupTable2[range + 1], var1), FInt(512))
        gas_resistance == FDiv(FAdd(var3, FDiv(var2, FInt(2))), var2)
    IN  FFloor(gas_resistance)

\* Compensate with pressure and humidity compensated before temperature:
\* they read the this.t_fine the previous cycle left
CompensateTemperatureLast(data, parsed, cal, t_fine_before) ==
    LET tf == TFine(adc_temp(data), parsed, cal)
    IN  [ t_fine |-> <<tf>>,
          reading |-> [ temperature |-> TemperatureOf(tf),
                        pressure |-> PressureOf(adc_pres(data), t_fine_before),
                        humidity |-> HumidityOf(adc_hum(data), t_fine_before),
                        gasResistance |->
                            GasOf(adc_gas_res(data), gas_range(data), cal) ] ]

\* lines 168-173: temperature first, which assigns this.t_fine, then
\* pressure and humidity, which read it, then gas
Compensate(data, parsed, cal, t_fine_before) ==
    LET tf == TFine(adc_temp(data), parsed, cal)
    IN  [ t_fine |-> <<tf>>,
          reading |-> [ temperature |-> TemperatureOf(tf),
                        pressure |-> PressureOf(adc_pres(data), <<tf>>),
                        humidity |-> HumidityOf(adc_hum(data), <<tf>>),
                        gasResistance |->
                            GasOf(adc_gas_res(data), gas_range(data), cal) ] ]

\* ChipIdMismatch with the identity check skipped
ChipIdMismatchSkipped(chipId) == FALSE

\* if (chipId !== 0x61), line 61
ChipIdMismatch(chipId) == chipId # BME680_CHIP_ID

\* the bus transactions of init(), in the order of its awaits: soft reset
\* (line 56), chip ID (line 60) and, when the ID is 0x61, the calibration
\* blocks (lines 68-69), the registers 0x02, 0x00, 0x04 (lines 105-110) and
\* the writes of ctrl_hum, config and ctrl_meas (lines 116-122)
BmeInitLog(chipId, chip) ==
    << Xfer("w", 224, 182), Xfer("r", 208, chipId) >> \o
    ( IF ChipIdMismatch(chipId) THEN << >>
      ELSE << Xfer("rb", 137, 25), Xfer("rb", 225, 16),
              Xfer("r", 2, chip.reg02), Xfer("r", 0, chip.reg00),
              Xfer("r", 4, chip.reg04),
              Xfer("w", 114, 2), Xfer("w", 117, 8),
              Xfer("w", 116, BmeCtrlMeasInit) >> )

\* the bus transactions of read() before its status loop (lines 136-141)
BmeReadLog(ctrl_meas) ==
    << Xfer("w", 113, 16), Xfer("r", 116, ctrl_meas),
       Xfer("w", 116, ForcedMode(ctrl_meas)) >>

\* one pass of the status loop: readI2cBlock(0x1D, 15) (line 147)
BmePollXfer == Xfer("rb", 29, 15)

BME680Init ==
    /\ bmeChip \in BmeChips
    /\ bmeRegs = BmeRegsReset
    /\ bmeI2c = FALSE
    /\ bmeCalParsed = FALSE
    /\ bmeCal = BmeCalUnassigned
    /\ bmeTFine = << >>
    /\ bmeTFineBefore = << >>
    /\ bmePc = "idle"
    /\ bmeData = BmeEmptyBlock
    /\ bmeBytesRead = 0
    /\ bmeFilled = 0
    /\ bmeInitResult = "none"
    /\ bmeReadResult = "none"
    /\ bmeReading = << >>
    /\ bmeLog = << >>

\* BME680.init(): soft reset, identity check, calibration, configuration.
\* chipId is what the chip answers at 0xD0.
BME680_init(chipId) ==
    /\ bmePc = "idle"
    /\ bmeI2c' = TRUE
    /\ bmeReadResult' = "none"
    /\ IF ChipIdMismatch(chipId)
         THEN /\ bmeInitResult' = "DeviceNotFound"
              /\ bmeRegs' = BmeRegsReset
              /\ bmeLog' = BmeInitLog(chipId, BmeChipImage(bmeChip))
              /\ UNCHANGED <<bmeCalParsed, bmeCal>>
         ELSE /\ bmeInitResult' = "ok"
              /\ bmeCalParsed' = TRUE
              /\ bmeCal' = ParseCalib(BmeChipImage(bmeChip))
              /\ bmeRegs' = [ ctrl_gas |-> 0, ctrl_hum |-> 2,
                              ctrl_meas |-> BmeCtrlMeasInit, config |-> 8 ]
              /\ bmeLog' = BmeInitLog(chipId, BmeChipImage(bmeChip))
    /\ UNCHANGED <<bmeChip, bmeTFine, bmeTFineBefore, bmePc, bmeData, bmeBytesRead,
                   bmeFilled, bmeReading>>
    /\ UNCHANGED <<orchVars, legacyVars, veVars, asVars, busVars, fnVars>>

BME680_initCall == \E chipId \in BmeChipIds : BME680_init(chipId)

\* BME680.read() up to its status loop: run_gas, then the forced-mode bits.
\* Before any init() this.i2c is undefined and the first bus call throws.
BME680_read ==
    /\ bmePc = "idle"
    /\ IF ~bmeI2c
         THEN /\ bmeReadResult' = "TypeError"
              /\ bmeLog' = << >>
              /\ UNCHANGED <<bmeRegs, bmePc, bmeData, bmeBytesRead, bmeFilled>>
         ELSE /\ bmeReadResult' = "pending"
              /\ bmeLog' = BmeReadLog(bmeRegs.ctrl_meas)
              /\ bmeRegs' = [bmeRegs EXCEPT !.ctrl_gas = 16,
                                            !.ctrl_meas = ForcedMode(bmeRegs.ctrl_meas)]
              /\ bmeData' = BmeEmptyBlock
              /\ bmeBytesRead' = 0
              /\ bmeFilled' = 0
              /\ bmePc' = "poll"
    /\ UNCHANGED <<bmeChip, bmeI2c, bmeCalParsed, bmeCal, bmeTFine, bmeTFineBefore,
                   bmeInitResult, bmeReading>>
    /\ UNCHANGED <<orchVars, legacyVars, veVars, asVars, busVars, fnVars>>

\* one pass of the do-while of lines 145-148: wait 5 ms, read the block into
\* the buffer allocated before the loop; the loop repeats while the new-data
\* flag is clear, with nothing counting the passes; once it is set the
\* fields are extracted from the buffer and compensated.
\* block is what the chip holds at 0x1D, n the bytes the read delivers.
BME680_poll(block, n) ==
    /\ bmePc = "poll"
    /\ bmeData' = BlockInto(bmeData, block, n)
    /\ bmeBytesRead' = n
    /\ bmeFilled' = IF bmeBytesRead > bmeFilled THEN bmeBytesRead ELSE bmeFilled
    /\ IF NewData(bmeData')
         THEN LET c == Compensate(bmeData', bmeCalParsed, bmeCal, bmeTFine)
              IN  /\ bmeTFine' = c.t_fine
                  /\ bmeTFineBefore' = bmeTFine
                  /\ bmeReading' = c.reading
                  /\ bmeReadResult' = "reading"
                  /\ bmePc' = "idle"
         ELSE UNCHANGED <<bmeTFine, bmeTFineBefore, bmeReading, bmeReadResult, bmePc>>
    /\ UNCHANGED <<bmeChip, bmeRegs, bmeI2c, bmeCalParsed, bmeCal, bmeInitResult, bmeLog>>
    /\ UNCHANGED <<orchVars, legacyVars, veVars, asVars, busVars, fnVars>>

BME680_pollStep ==
    \E block \in BmeBlocks, n \in BmeReadLengths : BME680_poll(block, n)

----------------------------------------------------------------------------
\* src/src/veml6030.ts

\* the low byte init() expects of register 0x07 (0x81), and the words the
\* register may hold: 0xC481 (the low byte matches) and 0x8100 (it does not)
VEML6030_ID_LSB == 129
VeIdWords == { 50176 + VEML6030_ID_LSB, 33024 }

\* the gainBits and itBits init() is called with
VeGainInputs == { 1, 3 }
VeItInputs == { 0, 5 }

\* VeDecodeGain with the cases of 0b11 and 0b10 exchanged
VeDecodeGainExchanged(bits) ==
    CASE bits % 4 = 0 -> 16
      [] bits % 4 = 1 -> 8
      [] bits % 4 = 2 -> 2
      [] bits % 4 = 3 -> 1

\* decodeGain, lines 109-122, in eighths (2, 1, 1/4, 1/8 are 16, 8, 2, 1)
VeDecodeGain(bits) ==
    CASE bits % 4 = 0 -> 16
      [] bits % 4 = 1 -> 8
      [] bits % 4 = 3 -> 2
      [] bits % 4 = 2 -> 1

\* decodeIntegrationTime, lines 128-145
VeDecodeIntegrationTime(bits) ==
    CASE bits % 8 = 0 -> 100
      [] bits % 8 = 1 -> 200
      [] bits % 8 = 2 -> 400
      [] bits % 8 = 3 -> 800
      [] bits % 8 = 4 -> 50
      [] bits % 8 = 5 -> 25
      [] OTHER -> 100

\* gainValue, held in eighths, as the number it is
VeGain(gainValue8) == FDiv(FInt(gainValue8), FInt(8))

\* lines 71-73: base * (800 / integrationTime) * (2 / gainValue) with base
\* 0.0036
LuxPerCount(integrationTime, gainValue8) ==
    FMul(FMul(FDecimal(36, 4), FDiv(FInt(800), FInt(integrationTime))),
         FDiv(FInt(2), VeGain(gainValue8)))

\* line 78: (gainBits << 11) | (itBits << 7)
VeConfigWord(gainBits, itBits) == BitOr(Shl(gainBits, 11), Shl(itBits, 7))

\* the fields before init() assigns them; arithmetic on the undefined
\* luxPerCount gives NaN
VeFieldsUnassigned == [gainValue8 |-> 0, integrationTime |-> 0, luxPerCount |-> FNaN]

\* the words register 0x04 may hold
VeRawWords == { 0, 1000, 40000, 65535 }

\* compensateHighLux, lines 151-161
compensateHighLux(lux) ==
    FAdd(FAdd(FAdd(FMul(FDecimal(60135, 17), FPowN(lux, 4)),
                   FMul(FNeg(FDecimal(93924, 13)), FPowN(lux, 3))),
              FMul(FDecimal(81488, 9), FPowN(lux, 2))),
         FMul(FDecimal(10023, 4), lux))

\* HighLux without the test of the gain
HighLuxAnyGain(gainValue8, lux) == lux.cls = "fin" /\ FCmp(lux, FInt(1000)) > 0

\* this.gainValue <= 0.25 && lux > 1000, line 98; both comparisons are false
\* while gainValue is undefined or lux is NaN
HighLux(gainValue8, lux) ==
    /\ gainValue8 # 0 /\ gainValue8 <= 2
    /\ lux.cls = "fin" /\ FCmp(lux, FInt(1000)) > 0

\* lines 92-100: the lux of a raw word
LuxOf(raw, fields) ==
    LET counts == raw % 65536
        lux == FMul(FInt(counts), fields.luxPerCount)
    IN  IF HighLux(fields.gainValue8, lux) THEN compensateHighLux(lux) ELSE lux

\* the bus transaction of read() (line 91)
VeReadLog(raw) == << Xfer("r", 4, raw) >>

\* idLsb = id & 0xFF; if (idLsb !== 0x81), lines 62-63
VeIdMismatch(id) == id % 256 # VEML6030_ID_LSB

\* the bus transactions of init(): the ID word (line 60) and, when its low
\* byte is 0x81, the configuration word (line 79)
VeInitLog(id, gainBits, itBits) ==
    << Xfer("r", 7, id) >> \o
    ( IF VeIdMismatch(id) THEN << >>
      ELSE << Xfer("w", 0, VeConfigWord(gainBits, itBits)) >> )

VEML6030Init ==
    /\ veI2c = FALSE
    /\ veFields = VeFieldsUnassigned
    /\ veInitResult = "none"
    /\ veReadResult = "none"
    /\ veReading = FNaN
    /\ veLog = << >>

\* VEML6030.init(gainBits, itBits); id is the word the chip answers at 0x07
VEML6030_init(id, gainBits, itBits) ==
    /\ veI2c' = TRUE
    /\ IF VeIdMismatch(id)
         THEN /\ veInitResult' = "DeviceNotFound"
              /\ UNCHANGED veFields
         ELSE /\ veInitResult' = "ok"
              /\ veFields' =
                    [ gainValue8 |-> VeDecodeGain(gainBits),
                      integrationTime |-> VeDecodeIntegrationTime(itBits),
                      luxPerCount |-> LuxPerCount(VeDecodeIntegrationTime(itBits),
                                                  VeDecodeGain(gainBits)) ]
    /\ veLog' = VeInitLog(id, gainBits, itBits)
    /\ veReadResult' = "none"
    /\ UNCHANGED veReading
    /\ UNCHANGED <<orchVars, legacyVars, bmeVars, asVars, busVars, fnVars>>

VEML6030_initCall ==
    \E id \in VeIdWords, gainBits \in VeGainInputs, itBits \in VeItInputs :
        VEML6030_init(id, gainBits, itBits)

\* VEML6030_read with the lux assigned to this.luxPerCount as well
VEML6030_readAssigning(raw) ==
    /\ IF ~veI2c
         THEN /\ veReadResult' = "TypeError"
              /\ veLog' = << >>
              /\ UNCHANGED <<veReading, veFields>>
         ELSE /\ veReadResult' = "reading"
              /\ veLog' = VeReadLog(raw)
              /\ veReading' = LuxOf(raw, veFields)
              /\ veFields' = [veFields EXCEPT !.luxPerCount = LuxOf(raw, veFields)]
    /\ UNCHANGED <<veI2c, veInitResult>>
    /\ UNCHANGED <<orchVars, legacyVars, bmeVars, asVars, busVars, fnVars>>

\* VEML6030.read(); raw is the word the chip answers at 0x04.  Before any
\* init() this.i2c is undefined and the bus call throws.
VEML6030_read(raw) ==
    /\ IF ~veI2c
         THEN /\ veReadResult' = "TypeError"
              /\ veLog' = << >>
              /\ UNCHANGED veReading
         ELSE /\ veReadResult' = "reading"
              /\ veLog' = VeReadLog(raw)
              /\ veReading' = LuxOf(raw, veFields)
    /\ UNCHANGED <<veI2c, veFields, veInitResult>>
    /\ UNCHANGED <<orchVars, legacyVars, bmeVars, asVars, busVars, fnVars>>

VEML6030_readCall == \E raw \in VeRawWords : VEML6030_read(raw)

\* init() called with every 2-bit gain code and every 3-bit time code
VEML6030_initAnyCall ==
    \E id \in VeIdWords, gainBits \in 0 .. 3, itBits \in 0 .. 7 :
        VEML6030_init(id, gainBits, itBits)

\* init() called with numbers beyond 2 and 3 bits as well: the parameters
\* are of type number (lines 53-56)
VeWideGainInputs == 0 .. 4
VeWideItInputs == (0 .. 8) \cup {16}

VEML6030_initWideCall ==
    \E id \in VeIdWords, gainBits \in VeWideGainInputs, itBits \in VeWideItInputs :
        VEML6030_init(id, gainBits, itBits)

\* the tables of the doc comment of init(), lines 47-52: gain 00 = 2x,
\* 01 = 1x, 11 = 1/4x, 10 = 1/8x (in eighths); integration time 000 = 100 ms,
\* 001 = 200 ms, 010 = 400 ms, 011 = 800 ms, 100 = 50 ms, 101 = 25 ms
VeGainTable == (0 :> 16) @@ (1 :> 8) @@ (3 :> 2) @@ (2 :> 1)
VeIntegrationTimeTable ==
    (0 :> 100) @@ (1 :> 200) @@ (2 :> 400) @@ (3 :> 800) @@ (4 :> 50) @@ (5 :> 25)

----------------------------------------------------------------------------
\* src/unnamed/part_001 (AS7331)

\* the device-class value the doc comment of init() names (0x2), and the
\* values bits 7:4 of the chip's OSR may hold
AS7331_DEVICE_ID == 2
AsChipIds == { AS7331_DEVICE_ID, 0, 15 }

\* the gainCode and timeCode init() is called with
AsGainInputs == { 7, 15 }
AsTimeInputs == { 7, 15 }

\* decodeGain, lines 115-118: Math.pow(2, code)
AsDecodeGain(code) == 2 ^ code

\* decodeIntegrationTime, lines 123-126: Math.pow(2, code)
AsDecodeIntegrationTime(code) == 2 ^ code

AsFieldsUnassigned ==
    [gainCode |-> 0, timeCode |-> 0, integrationTime |-> 0, gainMultiplier |-> 0]

\* the bus transactions of init(): configuration mode (line 57), gain, time
\* and clock divider (lines 66-70)
AsInitLog(gainCode, timeCode) ==
    << Xfer("w", 0, 0), Xfer("w", 6, gainCode % 16),
       Xfer("w", 7, timeCode % 16), Xfer("w", 8, 0) >>

\* the length of the measurement block read() asks for (line 93)
AsBlockLength == 6

\* the bytes the readI2cBlock of read() may deliver: all of them, or the
\* first 3
AsReadLengths == { AsBlockLength, 3 }

\* the six bytes at 0x02 (UVA, UVB, UVC, each low byte first) and the byte
\* at 0x01 the chip may hold
AsBlocks == { << 0, 0, 0, 0, 0, 0 >>, << 52, 18, 205, 171, 255, 255 >> }
AsTempBytes == { 0, 65 }

\* Buffer.alloc(6)
AsEmptyBlock == [i \in 1 .. AsBlockLength |-> 0]

\* lines 96-98: buf[k] | (buf[k + 1] << 8)
AsChannel(buf, k) == BitOr(At(buf, k), Shl(At(buf, k + 1), 8))

\* convertToIrradiance, lines 134-137: (raw * R_cal) / (gainMultiplier *
\* integrationTime) with R_cal = 0.5
convertToIrradiance(raw, fields) ==
    FDiv(FMul(FInt(raw), FDecimal(5, 1)),
         FMul(FInt(fields.gainMultiplier), FInt(fields.integrationTime)))

\* convertTemperature, lines 143-147: raw * T_coeff + T_offset with
\* T_coeff = 1.0 and T_offset = -40
convertTemperature(raw) == FAdd(FMul(FInt(raw), FInt(1)), FInt(-40))

\* the bus transactions of read(): one-shot conversion (line 86), the
\* measurement block (line 93), the temperature byte (line 101)
AsReadLog(n, tempRaw) ==
    << Xfer("w", 0, 1), Xfer("rb", 2, n), Xfer("r", 1, tempRaw) >>

AS7331Init ==
    /\ asChipId \in AsChipIds
    /\ asI2c = FALSE
    /\ asFields = AsFieldsUnassigned
    /\ asInitResult = "none"
    /\ asReadResult = "none"
    /\ asBytesRead = 0
    /\ asReading = << >>
    /\ asLog = << >>

\* AS7331.init(gainCode, timeCode): the identity check of lines 49-54 is
\* commented out, so OSR is never read and nothing throws; configuration
\* mode, then the codes masked to 4 bits, decoded and written
AS7331_init(gainCode, timeCode) ==
    /\ asI2c' = TRUE
    /\ asInitResult' = "ok"
    /\ asFields' = [ gainCode |-> gainCode % 16,
                     timeCode |-> timeCode % 16,
                     integrationTime |-> AsDecodeIntegrationTime(timeCode % 16),
                     gainMultiplier |-> AsDecodeGain(gainCode % 16) ]
    /\ asLog' = AsInitLog(gainCode, timeCode)
    /\ asReadResult' = "none"
    /\ UNCHANGED <<asChipId, asBytesRead, asReading>>
    /\ UNCHANGED <<orchVars, legacyVars, bmeVars, veVars, busVars, fnVars>>

AS7331_initCall ==
    \E gainCode \in AsGainInputs, timeCode \in AsTimeInputs : AS7331_init(gainCode, timeCode)

\* AS7331.read(): one-shot conversion, wait, the measurement block into a
\* fresh buffer, the temperature byte, conversion.  block and tempRaw are
\* what the chip holds, n the bytes the block read delivers.  Before any
\* init() this.i2c is undefined and the first bus call throws.
AS7331_read(block, n, tempRaw) ==
    /\ IF ~asI2c
         THEN /\ asReadResult' = "TypeError"
              /\ asLog' = << >>
              /\ UNCHANGED <<asBytesRead, asReading>>
         ELSE LET buf == BlockInto(AsEmptyBlock, block, n)
              IN  /\ asReadResult' = "reading"
                  /\ asLog' = AsReadLog(n, tempRaw)
                  /\ asBytesRead' = n
                  /\ asReading' =
                        [ uva |-> convertToIrradiance(AsChannel(buf, 0), asFields),
                          uvb |-> convertToIrradiance(AsChannel(buf, 2), asFields),
                          uvc |-> convertToIrradiance(AsChannel(buf, 4), asFields),
                          temperature |-> convertTemperature(tempRaw) ]
    /\ UNCHANGED <<asChipId, asI2c, asFields, asInitResult>>
    /\ UNCHANGED <<orchVars, legacyVars, bmeVars, veVars, busVars, fnVars>>

\* init() called with every 4-bit gain code and time code
AS7331_initAnyCall ==
    \E gainCode \in 0 .. 15, timeCode \in 0 .. 15 : AS7331_init(gainCode, timeCode)

\* the codes the doc comment of init() documents (lines 37-38): gain 0-11,
\* integration time 0-14
AsGainCodes == 0 .. 11
AsTimeCodes == 0 .. 14

\* the mappings those lines document: gain code 0 -> 1x, 1 -> 2x, ...,
\* 11 -> 2048x; time code n -> 2^n ms, up to 16 384 ms (indexed by code + 1)
AsGainTable == << 1, 2, 4, 8, 16, 32, 64, 128, 256, 512, 1024, 2048 >>
AsIntegrationTimeTable ==
    << 1, 2, 4, 8, 16, 32, 64, 128, 256, 512, 1024, 2048, 4096, 8192, 16384 >>

AS7331_readCall ==
    \E block \in AsBlocks, n \in AsReadLengths, tempRaw \in AsTempBytes :
        AS7331_read(block, n, tempRaw)

----------------------------------------------------------------------------
\* The awaits of init() and read().  Every bus call of the drivers is awaited
\* (bme680.ts lines 56-147, veml6030.ts lines 60-91, part_001 lines 57-101):
\* an invocation issues its transactions one after the other, each one in
\* flight from the call of the i2c-bus method until its promise settles.
\* Nothing in the drivers holds a lock or a queue, and each instance opens
\* its own handle of bus 1 (openPromisified), so an invocation issues its
\* next transaction whatever the other invocations are doing.

\* an invocation: the operation and the transactions it awaits, in order
BusScripts ==
    { [op |-> "BME680.init", xfers |-> BmeInitLog(BME680_CHIP_ID, BmeChipA)],
      [op |-> "BME680.init", xfers |-> BmeInitLog(96, BmeChipA)],
      [op |-> "BME680.read", xfers |-> BmeReadLog(BmeCtrlMeasInit) \o << BmePollXfer >>],
      [op |-> "VEML6030.init", xfers |-> VeInitLog(50176 + VEML6030_ID_LSB, 3, 0)],
      [op |-> "VEML6030.init", xfers |-> VeInitLog(33024, 3, 0)],
      [op |-> "VEML6030.read", xfers |-> VeReadLog(1000)],
      [op |-> "AS7331.init", xfers |-> AsInitLog(7, 7)],
      [op |-> "AS7331.read", xfers |-> AsReadLog(6, 25)] }

BusNoCall == [op |-> "none", xfers |-> << >>, pos |-> 0, flying |-> FALSE]

\* the invocations that have a transaction in flight
BusInFlight == { i \in DOMAIN busCalls : busCalls[i].flying }

BusInit == busCalls = [i \in 1 .. MaxBusCalls |-> BusNoCall]

\* init() or read() is called: by the application, or by a timer callback
\* while the calls of an earlier callback are still awaiting
BusCall(i, script) ==
    /\ busCalls[i].op = "none"
    /\ busCalls' = [busCalls EXCEPT ![i] =
                       [op |-> script.op, xfers |-> script.xfers,
                        pos |-> 1, flying |-> FALSE]]
    /\ UNCHANGED <<orchVars, legacyVars, driverVars, fnVars>>

\* await this.i2c.<method>(...): the invocation issues its next transaction
BusStart(i) ==
    /\ busCalls[i].op # "none"
    /\ ~ busCalls[i].flying
    /\ busCalls' = [busCalls EXCEPT ![i].flying = TRUE]
    /\ UNCHANGED <<orchVars, legacyVars, driverVars, fnVars>>

\* the promise settles: the invocation goes on to its next transaction, or
\* returns after its last one; the status loop of BME680.read() may issue
\* its block read again (lines 145-148)
BusComplete(i) ==
    /\ busCalls[i].flying
    /\ \/ /\ busCalls[i].pos < Len(busCalls[i].xfers)
          /\ busCalls' = [busCalls EXCEPT ![i].flying = FALSE,
                                          ![i].pos = busCalls[i].pos + 1]
       \/ /\ busCalls[i].pos = Len(busCalls[i].xfers)
          /\ busCalls' = [busCalls EXCEPT ![i] = BusNoCall]
       \/ /\ busCalls[i].pos = Len(busCalls[i].xfers)
          /\ busCalls[i].op = "BME680.read"
          /\ busCalls' = [busCalls EXCEPT ![i].flying = FALSE]
    /\ UNCHANGED <<orchVars, legacyVars, driverVars, fnVars>>

BusCallStep == \E i \in 1 .. MaxBusCalls, script \in BusScripts : BusCall(i, script)
BusStartStep == \E i \in 1 .. MaxBusCalls : BusStart(i)
BusCompleteStep == \E i \in 1 .. MaxBusCalls : BusComplete(i)

----------------------------------------------------------------------------

----------------------------------------------------------------------------
\* The private compensation functions of BME680 applied on their own: to
\* raw values, fine temperatures and coefficients that need not come from
\* one chip

\* no function has been called
FnInit == fnCall = [fn |-> "none", args |-> << >>, done |-> FALSE, result |-> FZero]

\* coefficient sets: the two chips', one with par_P1 = 0, one whose par_P2
\* and par_P3 make 1 + var1 / 32768 vanish at t_fine = 1176576, and two
\* with the extremes of par_H2
FnCals ==
    { ParseCalib(BmeChipA), ParseCalib(BmeChipB),
      [ParseCalib(BmeChipA) EXCEPT !.par_P1 = 0],
      [ParseCalib(BmeChipA) EXCEPT !.par_P2 = -32768, !.par_P3 = 0],
      [ParseCalib(BmeChipA) EXCEPT !.par_H2 = 4095, !.par_H1 = 0],
      [ParseCalib(BmeChipB) EXCEPT !.par_H2 = 0] }

\* values of this.t_fine
FnTFines == { -128000, 0, 100000, 128000, 166000, 1176576 }

\* raw 20-bit pressures, raw 16-bit humidities, raw 10-bit gas values
FnPressures == { 0, 300000, 400000, 524288, 1048575 }
FnHumidities == { 0, 15000, 20000, 25000, 30000, 65535 }
FnGasValues == { 0, 1, 511, 512, 513, 1023 }

\* a call of fn about to be evaluated on args
FnPending(fn, args) == [fn |-> fn, args |-> args, done |-> FALSE, result |-> FZero]

\* compensatePressure(adc_P) is called with this.t_fine and the par_P* as
\* drawn
PressureCalls ==
    { FnPending("compensatePressure", [adc |-> adc_P, t_fine |-> t_fine, cal |-> cal]) :
        adc_P \in FnPressures, t_fine \in FnTFines, cal \in FnCals }

ApplyCompensatePressure ==
    /\ fnCall.fn = "compensatePressure" /\ ~ fnCall.done
    /\ fnCall' = [fnCall EXCEPT
                    !.done = TRUE,
                    !.result = compensatePressure(fnCall.args.adc, fnCall.args.t_fine,
                                                  fnCall.args.cal)]
    /\ UNCHANGED <<orchVars, legacyVars, driverVars, busVars>>

\* compensateHumidity(adc_H) is called with this.t_fine and the par_H* as
\* drawn
HumidityCalls ==
    { FnPending("compensateHumidity", [adc |-> adc_H, t_fine |-> t_fine, cal |-> cal]) :
        adc_H \in FnHumidities, t_fine \in FnTFines, cal \in FnCals }

ApplyCompensateHumidity ==
    /\ fnCall.fn = "compensateHumidity" /\ ~ fnCall.done
    /\ fnCall' = [fnCall EXCEPT
                    !.done = TRUE,
                    !.result = compensateHumidity(fnCall.args.adc, fnCall.args.t_fine,
                                                  fnCall.args.cal)]
    /\ UNCHANGED <<orchVars, legacyVars, driverVars, busVars>>

\* compensateGas(adc_gas, gas_range) is called with this.range_sw_err as
\* drawn
GasCalls ==
    { FnPending("compensateGas",
                [adc |-> adc_gas, gas_range |-> range, range_sw_err |-> range_sw_err]) :
        adc_gas \in FnGasValues, range \in 0 .. 15, range_sw_err \in -8 .. 7 }

ApplyCompensateGas ==
    /\ fnCall.fn = "compensateGas" /\ ~ fnCall.done
    /\ fnCall' = [fnCall EXCEPT
                    !.done = TRUE,
                    !.result = compensateGas(fnCall.args.adc, fnCall.args.gas_range,
                                             fnCall.args.range_sw_err)]
    /\ UNCHANGED <<orchVars, legacyVars, driverVars, busVars>>

\* compensateGas as read() calls it: on the gas fields of a block (bytes 13
\* and 14, lines 156-159) and the range_sw_err init() took from register
\* 0x04 (lines 108-113)
GasByte13 == { 0, 128, 255 }
GasByte14 == { range + 64 * top : range \in 0 .. 15, top \in {0, 3} }
GasReg04 == { 16 * err4 : err4 \in 0 .. 15 }

GasBlock(byte13, byte14) ==
    [i \in 1 .. BmeBlockLength |->
        IF i = 1 THEN 128 ELSE IF i = 14 THEN byte13 ELSE IF i = 15 THEN byte14 ELSE 0]

\* init()'s range_sw_err for a chip whose register 0x04 holds reg04
RangeSwErr(reg04) == ParseCalib([BmeChipA EXCEPT !.reg04 = reg04]).range_sw_err

GasBlockCalls ==
    { FnPending("gasOfBlock", [data |-> GasBlock(byte13, byte14), reg04 |-> reg04]) :
        byte13 \in GasByte13, byte14 \in GasByte14, reg04 \in GasReg04 }

ApplyGasOfBlock ==
    /\ fnCall.fn = "gasOfBlock" /\ ~ fnCall.done
    /\ fnCall' = [fnCall EXCEPT
                    !.done = TRUE,
                    !.result = compensateGas(adc_gas_res(fnCall.args.data),
                                             gas_range(fnCall.args.data),
                                             RangeSwErr(fnCall.args.reg04))]
    /\ UNCHANGED <<orchVars, legacyVars, driverVars, busVars>>

----------------------------------------------------------------------------

\* everything constructed, nothing called
Constructed ==
    /\ OrchInit /\ LegacyInit /\ BME680Init /\ VEML6030Init /\ AS7331Init
    /\ BusInit

Init == Constructed /\ FnInit

Next == SetSampleIntervalCall \/ Tick \/ LegacyTick

Spec == Init /\ [][Next]_vars

\* The drivers under an arbitrary caller (nothing in index.ts lines 1-87
\* calls them: the import of line 13 is commented out)
BmeNext == BME680_initCall \/ BME680_read \/ BME680_pollStep

\* init() of the three drivers, in any order and any number of times
DriverNext == BME680_initCall \/ VEML6030_initCall \/ AS7331_initCall

SpecDrivers == Init /\ [][DriverNext]_vars

\* The BME680 driver alone; the event loop keeps running timers and
\* completing bus calls, so a read() in its status loop keeps polling
SpecBme == Init /\ [][BmeNext]_vars /\ WF_vars(BME680_pollStep)

\* The transactions of concurrent invocations of the drivers
BusNext == BusCallStep \/ BusStartStep \/ BusCompleteStep

SpecBus == Init /\ [][BusNext]_vars

\* Each driver on its own.  The three classes share no field and each
\* instance opens its own handle of the bus, so what the operations of one
\* do does not depend on the other two: these are the behaviours in which
\* one of the three instances is in use.
VeNext == VEML6030_initCall \/ VEML6030_readCall
AsNext == AS7331_initCall \/ AS7331_readCall

BmeUnused == bmeInitResult = "none" /\ bmeReadResult = "none"
VeUnused == veInitResult = "none" /\ veReadResult = "none"
AsUnused == asInitResult = "none" /\ asReadResult = "none"

EachNext ==
    \/ (VeUnused /\ AsUnused /\ BmeNext)
    \/ (BmeUnused /\ AsUnused /\ VeNext)
    \/ (BmeUnused /\ VeUnused /\ AsNext)

SpecEach == Init /\ [][EachNext]_vars

\* init() of the VEML6030 and AS7331 drivers with every code, one instance
\* in use
ConfigNext ==
    \/ (AsUnused /\ VEML6030_initAnyCall)
    \/ (VeUnused /\ AS7331_initAnyCall)

SpecConfig == Init /\ [][ConfigNext]_vars

\* init() of the VEML6030 driver with any numbers
SpecVeConfig == Init /\ [][VEML6030_initWideCall]_vars

\* The compensation functions applied on their own: the arguments and the
\* fields they read are drawn, then the function is evaluated
PressureInit == Constructed /\ fnCall \in PressureCalls
HumidityInit == Constructed /\ fnCall \in HumidityCalls
GasInit == Constructed /\ fnCall \in GasCalls

SpecPressure == PressureInit /\ [][ApplyCompensatePressure]_vars
SpecHumidity == HumidityInit /\ [][ApplyCompensateHumidity]_vars
SpecGas == GasInit /\ [][ApplyCompensateGas]_vars

\* Gas compensation on the fields of a block
GasBlockInit == Constructed /\ fnCall \in GasBlockCalls
SpecGasBlock == GasBlockInit /\ [][ApplyGasOfBlock]_vars

----------------------------------------------------------------------------
\* Properties of the orchestrator (checked under Spec)

\* C1: a setSampleInterval call whose argument is SAMPLEINT_MIN, SAMPLEINT_MAX
\* or between them returns true; one whose argument is one unit (two halves)
\* or more outside either bound returns false and leaves sampleInterval as
\* it was.
C1_SetSampleIntervalBounds ==
    [][ op' = "setSampleInterval" =>
          /\ (SAMPLEINT_MIN2 <= setArg' /\ setArg' <= SAMPLEINT_MAX2)
                => setRet' = TRUE
          /\ (setArg' <= SAMPLEINT_MIN2 - 2 \/ setArg' >= SAMPLEINT_MAX2 + 2)
                => (setRet' = FALSE /\ sampleInterval' = sampleInterval) ]_vars

\* a call one unit above SAMPLEINT_MAX was rejected and the interval an
\* earlier call at SAMPLEINT_MAX had set is still there
C1_Witness ==
    /\ op = "setSampleInterval"
    /\ setArg = SAMPLEINT_MAX2 + 2
    /\ setRet = FALSE
    /\ sampleInterval = IntervalTimes1000(SAMPLEINT_MAX2)

\* C2: the sample interval the orchestrator holds lies within
\* [SAMPLEINT_MIN, SAMPLEINT_MAX], in the unit of those bounds (for the
\* integer sampleInterval: ceil(0.5) <= sampleInterval <= SAMPLEINT_MAX).
C2_SampleIntervalWithinBounds ==
    /\ BigLeq(Big((SAMPLEINT_MIN2 + 1) \div 2), sampleInterval)
    /\ BigLeq(sampleInterval, Big(SAMPLEINT_MAX2 \div 2))

\* C3: a setSampleInterval call leaves the tick already scheduled where it
\* was, and every tick schedules its successor one (current) sampleInterval
\* later.
C3_ChangeTakesEffectNextTick ==
    [][ /\ (op' = "setSampleInterval" => nextTickAt' = nextTickAt)
        /\ (ticks' = ticks + 1 => nextTickAt' = BigAdd(nextTickAt, sampleInterval)) ]_vars

\* C4: a cycle in which a driver call failed still made every other call and
\* published the values of all the calls that succeeded, and no entry of the
\* failed one.
C4_FailureDoesNotAbortCycle ==
    legacyThrew # "none" =>
        /\ legacyInvoked = LegacyCalls
        /\ { legacyPublished[i][1] : i \in DOMAIN legacyPublished }
             = { LegacyCalls[i] : i \in DOMAIN LegacyCalls } \ { legacyThrew }

\* C5: each completed cycle emits exactly one change notification: as many
\* notifications have been emitted as cycles have completed, and the latest
\* cycle emitted one.
C5_OneNotificationPerCycle ==
    /\ signalTotal = ticks
    /\ (ticks > 0 => Len(signals) = 1)

----------------------------------------------------------------------------
\* Properties of the drivers

\* C6: a read() that has entered its status loop leaves it, whatever the
\* chip answers (checked under SpecBme, where the loop keeps polling).
C6_ReadTerminates == (bmePc = "poll") ~> (bmePc = "idle")

\* C7: in every completed read() the fine temperature that pressure and
\* humidity compensation were evaluated on is the one computed from the raw
\* temperature of the same block, and it is what this.t_fine holds.
C7_TFineFromSameCycle ==
    bmeReadResult = "reading" =>
        LET tf == << TFine(adc_temp(bmeData), bmeCalParsed, bmeCal) >>
        IN  /\ bmeReading.pressure.t_fine = tf
            /\ bmeReading.humidity.t_fine = tf
            /\ bmeTFine = tf

\* a read() completed on an initialized driver whose this.t_fine held another
\* value, left by an earlier cycle
C7_Witness ==
    /\ bmeReadResult = "reading"
    /\ bmeInitResult = "ok"
    /\ bmeTFineBefore # << >>
    /\ bmeTFineBefore # bmeTFine

\* the log of a BME680.init() that read an identity other than 0x61
BmeInitMismatchLog(log) ==
    /\ Len(log) >= 2
    /\ log[1] = Xfer("w", 224, 182)
    /\ log[2][1] = "r" /\ log[2][2] = 208
    /\ log[2][3] # BME680_CHIP_ID

\* the log of a VEML6030.init() that read an identity whose low byte is not 0x81
VeInitMismatchLog(log) ==
    /\ Len(log) >= 1
    /\ log[1][1] = "r" /\ log[1][2] = 7
    /\ log[1][3] % 256 # VEML6030_ID_LSB

\* C8: an init() of the BME680 or VEML6030 driver that reads an identity other
\* than the expected one fails with DeviceNotFound, assigns no calibration
\* or configuration field, reads no calibration block and writes none of
\* ctrl_hum (0x72), config (0x75), ctrl_meas (0x74) or the VEML6030
\* configuration word (0x00).
C8_IdentityMismatchFailsInit ==
    [][ /\ BmeInitMismatchLog(bmeLog') =>
              /\ bmeInitResult' = "DeviceNotFound"
              /\ bmeCalParsed' = bmeCalParsed /\ bmeCal' = bmeCal
              /\ WrittenRegs(bmeLog') \cap {114, 116, 117} = {}
              /\ \A i \in DOMAIN bmeLog' : bmeLog'[i][1] # "rb"
        /\ VeInitMismatchLog(veLog') =>
              /\ veInitResult' = "DeviceNotFound"
              /\ veFields' = veFields
              /\ WrittenRegs(veLog') = {} ]_vars

\* both drivers were initialized, and a later init() of each failed the
\* identity check
C8_Witness ==
    /\ bmeInitResult = "DeviceNotFound" /\ BmeInitMismatchLog(bmeLog)
    /\ bmeCalParsed
    /\ veInitResult = "DeviceNotFound" /\ VeInitMismatchLog(veLog)
    /\ veFields # VeFieldsUnassigned

\* C9: while the latest init() of the BME680 driver has failed the identity
\* check, no read() issued since has returned a reading.
C9_NoReadingAfterFailedInit ==
    ~ (bmeInitResult = "DeviceNotFound" /\ bmeReadResult = "reading")

\* C10: an AS7331.init() on a chip whose OSR bits 7:4 are not 0x2 fails with
\* DeviceNotFound and writes none of the gain (0x06), integration-time
\* (0x07) and clock-divider (0x08) registers.
C10_IdentityChecked ==
    (asInitResult # "none" /\ asChipId # AS7331_DEVICE_ID) =>
        /\ asInitResult = "DeviceNotFound"
        /\ WrittenRegs(asLog) \cap {6, 7, 8} = {}

\* C11: at no time are two bus transactions in flight, whichever init() and
\* read() invocations of the drivers are running.
C11_OneTransactionInFlight == Cardinality(BusInFlight) <= 1

\* C12: a read() whose block read delivered fewer bytes than it asked for
\* has failed with ParseError and left the driver idle; it has neither gone
\* on polling nor returned a reading.
C12_ShortBlockIsParseError ==
    /\ (0 < bmeBytesRead /\ bmeBytesRead < BmeBlockLength)
          => (bmeReadResult = "ParseError" /\ bmePc = "idle")
    /\ (asReadResult \notin {"none", "TypeError"} /\ asBytesRead < AsBlockLength)
          => asReadResult = "ParseError"

\* the positions in a log of the transactions of kind on one of regs
LogPositions(log, kind, regs) ==
    { i \in DOMAIN log : log[i][1] = kind /\ log[i][2] \in regs }

\* every position of before is lower than every position of after
AllBefore(before, after) == \A i \in before, j \in after : i < j

\* C13: the transactions of a BME680.init() come in the order identity read
\* (0xD0), soft reset (0xE0), calibration block reads (0x89, 0xE1),
\* configuration writes (0x72, 0x75, 0x74); no write comes before the
\* identity read.
C13_InitOrder ==
    (bmeInitResult # "none" /\ bmeReadResult = "none") =>
        LET identity == LogPositions(bmeLog, "r", {208})
            reset == LogPositions(bmeLog, "w", {224})
            calibration == LogPositions(bmeLog, "rb", {137, 225})
            configuration == LogPositions(bmeLog, "w", {114, 117, 116})
            writes == LogPositions(bmeLog, "w", 0 .. 255)
        IN  /\ identity # {}
            /\ AllBefore(identity, writes)
            /\ AllBefore(identity, reset)
            /\ AllBefore(reset, calibration)
            /\ AllBefore(calibration, configuration)

\* the bytes of the buffer (indices from 0) that the latest block read of
\* the running read() did not deliver and an earlier one had
BmeStaleBytes == { j \in 0 .. BmeBlockLength - 1 : bmeBytesRead <= j /\ j < bmeFilled }

\* C14: the raw fields of a completed BME680.read() are extracted from bytes
\* of one block read, the one that showed the new-data flag: none of the
\* bytes of a field was left in the buffer by an earlier block read.  (The
\* buffer of AS7331.read() is allocated for its one block read, and
\* VEML6030.read() reads one word.)
C14_SampleFromOneBlockRead ==
    bmeReadResult = "reading" =>
        \A f \in DOMAIN BmeFieldBytes : BmeFieldBytes[f] \cap BmeStaleBytes = {}

\* C15: a step of a read() (the only steps that leave a driver's read result
\* other than "none") changes no calibration and no configuration field of
\* its driver.
C15_ReadsKeepCalibration ==
    [][ /\ bmeReadResult' # "none" => (bmeCal' = bmeCal /\ bmeCalParsed' = bmeCalParsed)
        /\ veReadResult' # "none" => veFields' = veFields
        /\ asReadResult' # "none" => asFields' = asFields ]_vars

\* a read() of an initialized BME680 returned a reading and changed t_fine
C15_Witness ==
    /\ bmeInitResult = "ok" /\ bmeReadResult = "reading"
    /\ bmeTFine # bmeTFineBefore
    /\ bmeCal = ParseCalib(BmeChipImage(bmeChip))

----------------------------------------------------------------------------
\* Properties of the compensation functions

\* C17: when the denominator var1 = (1 + var1 / 32768) * par_P1 is zero,
\* compensatePressure returns 0 (checked under SpecPressure).
C17_ZeroDenominatorReturnsZero ==
    (fnCall.fn = "compensatePressure" /\ fnCall.done
       /\ FIsZero(PressureDenominator(fnCall.args.t_fine, fnCall.args.cal)))
        => fnCall.result = FZero

\* compensatePressure returned for a zero denominator although par_P1 is
\* not zero
C17_Witness ==
    /\ fnCall.fn = "compensatePressure" /\ fnCall.done
    /\ fnCall.args.cal.par_P1 # 0
    /\ FIsZero(PressureDenominator(fnCall.args.t_fine, fnCall.args.cal))

\* C18: the humidity compensateHumidity returns is a number from 0 to 100
\* (checked under SpecHumidity).
C18_HumidityInRange ==
    (fnCall.fn = "compensateHumidity" /\ fnCall.done) =>
        /\ fnCall.result.cls = "fin"
        /\ FCmp(fnCall.result, FInt(0)) >= 0
        /\ FCmp(fnCall.result, FInt(100)) <= 0

\* compensateHumidity returned 0 for an H below 0, and it returned 100 for
\* an H above 100000
C18_Witness ==
    /\ fnCall.fn = "compensateHumidity" /\ fnCall.done
    /\ HumidityRaw(fnCall.args.adc, fnCall.args.t_fine, fnCall.args.cal) < 0
    /\ fnCall.result = FInt(0)

\* floor((var3 + var2 / 2) / var2) of the claim, in exact arithmetic on
\* naturals: with V1 = 65536 * var1 = (1340 + 5 * err) * table1[range] and
\* V2 = 65536 * var2 = raw * 2^31 - 2^40 + V1 (positive: V1 is above 2^40),
\* the quotient is (2 * table2[range] * V1 + 512 * V2) / (1024 * V2)
GasExact(adc_gas, range, range_sw_err) ==
    LET V1 == NatMul(NatOf(1340 + 5 * range_sw_err), NatOf(lookupTable1[range + 1]))
        V2 == NatSub(NatAdd(NatShl(NatOf(adc_gas), 31), V1), NatShl(<< 1 >>, 40))
        T2 == FTrunc(lookupTable2[range + 1])
    IN  NatDivMod(NatAdd(NatShl(NatMul(T2, V1), 1), NatShl(V2, 9)), NatShl(V2, 10)).q

\* C19: compensateGas returns floor((var3 + var2 / 2) / var2) with var1 =
\* (1340 + 5 * err) * table1[range] / 65536, var2 = raw * 32768 - 16777216 +
\* var1 and var3 = table2[range] * var1 / 512 (checked under SpecGas).
C19_GasFormula ==
    (fnCall.fn = "compensateGas" /\ fnCall.done) =>
        /\ fnCall.result.cls = "fin" /\ ~ fnCall.result.neg
        /\ ~ FHasFraction(fnCall.result)
        /\ FTrunc(fnCall.result) =
              GasExact(fnCall.args.adc, fnCall.args.gas_range, fnCall.args.range_sw_err)

----------------------------------------------------------------------------
\* Properties of the decoders (checked under SpecConfig)

\* the gain and integration-time codes of the configuration word init()
\* wrote: bits 12..11 and 9..7
VeWrittenGainBits == (veLog[2][3] \div 2048) % 4
VeWrittenItBits == (veLog[2][3] \div 128) % 8

\* C20: after an init() with a documented code the decoded fields are the
\* documented ones: AS7331 gain code c in 0..11 gives 2^c and time code c in
\* 0..14 gives 2^c ms; VEML6030 gain codes 00, 01, 11, 10 give 2, 1, 1/4,
\* 1/8 and time codes 000 to 101 give 100, 200, 400, 800, 50, 25 ms.
C20_DecodersMatchDocumentation ==
    /\ asInitResult = "ok" =>
          /\ asFields.gainCode \in AsGainCodes =>
                asFields.gainMultiplier = AsGainTable[asFields.gainCode + 1]
          /\ asFields.timeCode \in AsTimeCodes =>
                asFields.integrationTime = AsIntegrationTimeTable[asFields.timeCode + 1]
    /\ veInitResult = "ok" =>
          /\ VeWrittenGainBits \in DOMAIN VeGainTable =>
                veFields.gainValue8 = VeGainTable[VeWrittenGainBits]
          /\ VeWrittenItBits \in DOMAIN VeIntegrationTimeTable =>
                veFields.integrationTime = VeIntegrationTimeTable[VeWrittenItBits]

\* VEML6030.init() was called with gain code 10 and time code 101
C20_Witness ==
    /\ veInitResult = "ok"
    /\ VeWrittenGainBits = 2 /\ VeWrittenItBits = 5
    /\ veFields.gainValue8 = 1 /\ veFields.integrationTime = 25

----------------------------------------------------------------------------
\* Properties of VEML6030.read() and of the configuration the drivers write

\* counts * this.luxPerCount for the word the latest read() got from 0x04
VeProduct == FMul(FInt(veLog[1][3] % 65536), veFields.luxPerCount)

\* C21: the lux of a read() is the quartic polynomial of counts *
\* luxPerCount when the gain is 1/4 or 1/8 and that product is above 1000,
\* and the product itself otherwise.
C21_HighLuxCompensation ==
    veReadResult = "reading" =>
        IF /\ veFields.gainValue8 \in {1, 2}
           /\ VeProduct.cls = "fin" /\ FCmp(VeProduct, FInt(1000)) > 0
          THEN veReading = compensateHighLux(VeProduct)
          ELSE veReading = VeProduct

\* a read() at gain 1/4 whose product was above 1000 returned another value
\* than the product
C21_Witness ==
    /\ veReadResult = "reading" /\ veInitResult = "ok"
    /\ veFields.gainValue8 = 2
    /\ FCmp(VeProduct, FInt(1000)) > 0
    /\ veReading # VeProduct

\* C22: the configuration word a successful VEML6030.init() wrote holds in
\* bits 12..11 and 9..7 codes that decode to the gain and integration time
\* luxPerCount was computed from, and has no other bit set.
C22_ConfigWordConsistent ==
    veInitResult = "ok" =>
        /\ veFields.gainValue8 = VeDecodeGain(VeWrittenGainBits)
        /\ veFields.integrationTime = VeDecodeIntegrationTime(VeWrittenItBits)
        /\ veFields.luxPerCount =
              LuxPerCount(VeDecodeIntegrationTime(VeWrittenItBits),
                          VeDecodeGain(VeWrittenGainBits))
        /\ veLog[2][3] = VeWrittenGainBits * 2048 + VeWrittenItBits * 128

\* the set of the values of a table
TableValues(table) == { table[i] : i \in DOMAIN table }

\* C23: after an AS7331.init() the gain multiplier is one of 2^0..2^11, the
\* integration time is one of 2^0..2^14 ms, and the values written to the
\* gain (0x06) and integration-time (0x07) registers are the codes those
\* were decoded from.
C23_ActiveConfigurationDocumented ==
    asInitResult = "ok" =>
        /\ asFields.gainMultiplier \in TableValues(AsGainTable)
        /\ asFields.integrationTime \in TableValues(AsIntegrationTimeTable)
        /\ asLog[2][2] = 6 /\ asFields.gainMultiplier = AsDecodeGain(asLog[2][3])
        /\ asLog[3][2] = 7 /\ asFields.integrationTime = AsDecodeIntegrationTime(asLog[3][3])

\* C24: a BME680.read() writes to ctrl_meas (0x74) the value it has just
\* read there with the mode bits 1..0 replaced by 01, and after a successful
\* init() the oversampling bits 7..2 of the register stay osrs_t = 4,
\* osrs_p = 3, however many reads follow.
C24_ForcedModeKeepsOversampling ==
    /\ bmeReadResult \in {"pending", "reading"} =>
          /\ bmeLog[2][1] = "r" /\ bmeLog[2][2] = 116
          /\ bmeLog[3][1] = "w" /\ bmeLog[3][2] = 116
          /\ bmeLog[3][3] \div 4 = bmeLog[2][3] \div 4
          /\ bmeLog[3][3] % 4 = 1
    /\ bmeInitResult = "ok" => bmeRegs.ctrl_meas \div 4 = 4 * 8 + 3

\* the second read() after an init() has returned: it read ctrl_meas with
\* the mode bits the first one had written
C24_Witness ==
    /\ bmeInitResult = "ok" /\ bmeReadResult = "reading"
    /\ bmeTFineBefore # << >>
    /\ bmeLog[2][3] % 4 = 1
    /\ bmeRegs.ctrl_meas = (4 * 8 + 3) * 4 + 1

\* C25: the gas fields extracted from a block are in range (gas range
\* 0..15, raw gas value 0..1023), range_sw_err is in -8..7, the divisor var2
\* of compensateGas is not zero for them and compensateGas returns a finite
\* integer (checked under SpecGasBlock).
C25_GasInputsInRange ==
    (fnCall.fn = "gasOfBlock" /\ fnCall.done) =>
        /\ gas_range(fnCall.args.data) \in 0 .. 15
        /\ adc_gas_res(fnCall.args.data) \in 0 .. 1023
        /\ RangeSwErr(fnCall.args.reg04) \in -8 .. 7
        /\ ~ FIsZero(GasVar2(adc_gas_res(fnCall.args.data),
                             GasVar1(gas_range(fnCall.args.data),
                                     RangeSwErr(fnCall.args.reg04))))
        /\ fnCall.result.cls = "fin"
        /\ ~ FHasFraction(fnCall.result)

\* compensateGas returned for the largest raw value and gas range and the
\* lowest range_sw_err
C25_Witness ==
    /\ fnCall.fn = "gasOfBlock" /\ fnCall.done
    /\ adc_gas_res(fnCall.args.data) = 1023
    /\ gas_range(fnCall.args.data) = 15
    /\ RangeSwErr(fnCall.args.reg04) = -8

====
